---- MODULE Spec2Model ----
(***************************************************************************)
(* ArgDoc: a registry of parameter descriptions and a decorator that       *)
(* appends "Arguments" / "Keyword Arguments" / "Raises" sections to the    *)
(* docstring of a callable.                                                *)
(*                                                                         *)
(*   Spec        the packaged class,  src/argdoc/argdoc.py                 *)
(*   LegacySpec  the top-level class, src/argdoc.py                        *)
(*                                                                         *)
(* A docstring is a sequence of chunks, one per `doc = ...` / `doc += ...` *)
(* of the code; a chunk is the sequence of the pieces of the format string *)
(* and of the values formatted into it.  The text is their concatenation.  *)
(***************************************************************************)
EXTENDS Integers, Sequences, FiniteSets, TLC

VARIABLES
    form,         \* ArgDoc.form
    ignore_args,  \* ArgDoc.ignore_args
    ignore_kws,   \* ArgDoc.ignore_kws
    arguments,    \* ArgDoc.arguments : name -> record
    keywords,     \* ArgDoc.keywords  : name -> record
    decorator,    \* the __ArgDocumenter made by the latest ArgDoc.__call__
    call,         \* the most recent call on the instance and its arguments
    err,          \* the exception raised by the most recent call, or NoErr
    doc,          \* the __doc__ the most recent call set on its target, or <<>>
    ignore,       \* src/argdoc.py: ArgDoc.ignore
    positional,   \* src/argdoc.py: ArgDoc.positional : name -> record
    dict_order    \* src/argdoc.py: the order in which the interpreter iterates a dict

vars == <<form, ignore_args, ignore_kws, arguments, keywords, decorator, call, err, doc,
          ignore, positional, dict_order>>

\* The state of the top-level class, which the packaged class does not have.
legacy_vars == <<ignore, positional, dict_order>>
\* The state of the packaged class, which the top-level class does not have.
package_vars == <<form, ignore_args, ignore_kws, arguments, decorator>>

-----------------------------------------------------------------------------
(* Python values *)

PyNone == "@None"     \* the value None
Empty  == "@_empty"   \* inspect._empty: "this parameter declares no default"

\* '{}'.format(v): str(v).  A str formats as itself.
Str(v) ==
    CASE v = PyNone -> "None"
      [] v = Empty  -> "<class 'inspect._empty'>"
      [] OTHER      -> v

\* Parameter kinds
POSITIONAL_ONLY       == "POSITIONAL_ONLY"
POSITIONAL_OR_KEYWORD == "POSITIONAL_OR_KEYWORD"
VAR_POSITIONAL        == "VAR_POSITIONAL"
KEYWORD_ONLY          == "KEYWORD_ONLY"
VAR_KEYWORD           == "VAR_KEYWORD"

POSITIONALS == {POSITIONAL_ONLY, POSITIONAL_OR_KEYWORD, VAR_POSITIONAL}

\* Exceptions: <<>> when the call returned, <<type, message pieces>> otherwise.
NoErr == <<>>
Raise(exc, msg) == <<exc, msg>>
Raised(e, exc) == e # NoErr /\ e[1] = exc

\* A dict is a function from its keys; d with key k set to v:
DictSet(d, k, v) == [x \in (DOMAIN d) \cup {k} |-> IF x = k THEN v ELSE d[x]]
EmptyDict == [x \in {} |-> {}]

\* The order in which d.items() yields the keys of a dict is the
\* interpreter's: the order of insertion (Python 3.7), or an order of the
\* keys that their hashes fix (Python 2.7).
InsertionOrder == [insertion |-> TRUE, order |-> <<>>]

-----------------------------------------------------------------------------
(* Bounds and inputs *)

MaxParams  == 2   \* parameters of a decorated callable

RegNames    == {"x", "y"}                 \* names given to register_*
ClassStr    == "<class 'str'>"            \* the type object str
\* (typ, desc) of register_argument: typ is a type or a str
RegInputs   == {<<ClassStr, "d1">>, <<"list of str", "d2">>}
\* (typ, desc, default) of register_keyword
KwRegInputs == {<<ClassStr, "d1", PyNone>>, <<"list of str", "d2", "Hello">>}
SigDefaults == {Empty, "Test1"}           \* defaults a callable declares
\* keyword arguments of the constructor: each format once, with y ignored
\* as an argument in one configuration and as a keyword in the other
NewInputs ==
    { [form |-> "numpy",  ignore_args |-> {"y"}, ignore_kws |-> {}],
      [form |-> "google", ignore_args |-> {},    ignore_kws |-> {"y"}] }
DocText     == "\n    Does nothing.\n    "
RawDocs     == {PyNone, "", DocText}

\* raises= of ArgDoc.__call__: None, or a dict given as its items in order
RaisesNone  == [isNone |-> TRUE,  items |-> <<>>]
RaisesInputs ==
    { RaisesNone,
      [isNone |-> FALSE, items |-> <<>>],
      [isNone |-> FALSE, items |-> << <<"KeyError", "c1">>, <<"ValueError", "c2">> >>] }

\* Named parameters are x and y; the captures are *args and **kwargs.  A
\* keyword-only parameter is declared without a default: with one, the code
\* treats it as it treats a positional-or-keyword parameter with a default.
NamedParameters ==
    [name : RegNames, kind : {POSITIONAL_OR_KEYWORD}, default : SigDefaults]
      \cup [name : RegNames, kind : {KEYWORD_ONLY}, default : {Empty}]
Parameters ==
    NamedParameters
      \cup {[name |-> "args",   kind |-> VAR_POSITIONAL, default |-> Empty],
            [name |-> "kwargs", kind |-> VAR_KEYWORD,    default |-> Empty]}

IsCapture(p) == p.kind \in {VAR_POSITIONAL, VAR_KEYWORD}

\* The order in which a def statement lets kinds follow one another.
KindRank(k) ==
    CASE k = POSITIONAL_ONLY       -> 0
      [] k = POSITIONAL_OR_KEYWORD -> 1
      [] k = VAR_POSITIONAL        -> 2
      [] k = KEYWORD_ONLY          -> 3
      [] k = VAR_KEYWORD           -> 4

\* The signatures inspect.signature can return for a Python callable.
ValidSignature(s) ==
    \A i, j \in 1..Len(s) : i < j =>
        /\ s[i].name # s[j].name
        /\ KindRank(s[i].kind) <= KindRank(s[j].kind)
        /\ (KindRank(s[j].kind) <= 1 /\ s[i].default # Empty) => s[j].default # Empty

Signatures ==
    {s \in UNION {[1..n -> Parameters] : n \in 0..MaxParams} : ValidSignature(s)}

\* The callables handed to the decorator: whether hasattr(obj, '__doc__'),
\* the __doc__ they carry, and their signature.  Every signature comes with
\* the docstring text; f() and f(x) also come without a docstring, and one
\* object comes without the attribute.
DoclessSignatures ==
    {<<>>, <<[name |-> "x", kind |-> POSITIONAL_OR_KEYWORD, default |-> Empty]>>}
Callables ==
    [hasdoc : {TRUE}, rawdoc : {DocText}, sig : Signatures]
      \cup [hasdoc : {TRUE}, rawdoc : RawDocs, sig : DoclessSignatures]
      \cup [hasdoc : {FALSE}, rawdoc : {PyNone}, sig : {<<>>}]

-----------------------------------------------------------------------------
(* The registry: ArgDoc.__register_param, register_argument, register_keyword *)

\* try: typ.__name__  except AttributeError: str(typ)
DisplayName(typ) == IF typ = ClassStr THEN "str" ELSE Str(typ)

\* The record stored for a name: 'default' is a key only for a non-None default.
NewRecord(typ, desc, default) ==
    IF default # PyNone
    THEN [type |-> DisplayName(typ), desc |-> desc, default |-> default]
    ELSE [type |-> DisplayName(typ), desc |-> desc]

\* A registry that refuses a held name even with force.
Duplicate_IgnoresForce(store, name, force) == name \in DOMAIN store

\* `not force and name in store`
Duplicate(store, name, force) == ~force /\ name \in DOMAIN store

\* The store after __register_param, and the exception it raises.
RegisterStore(store, name, typ, desc, default, force) ==
    IF Duplicate(store, name, force)
    THEN store
    ELSE DictSet(store, name, NewRecord(typ, desc, default))

RegisterErr(store, name, force, errstr) ==
    IF Duplicate(store, name, force)
    THEN Raise("KeyError", <<errstr, " ", name, " already registered.">>)
    ELSE NoErr

RegisterCall(op, name, typ, desc, default, force) ==
    [op |-> op, name |-> name, typ |-> typ, desc |-> desc,
     default |-> default, force |-> force]

register_argument(name, typ, desc, force) ==
    /\ arguments' = RegisterStore(arguments, name, typ, desc, PyNone, force)
    /\ err' = RegisterErr(arguments, name, force, "Positional argument")
    /\ call' = RegisterCall("register_argument", name, typ, desc, PyNone, force)
    /\ doc' = <<>>
    /\ UNCHANGED <<form, ignore_args, ignore_kws, keywords, decorator, legacy_vars>>

register_keyword(name, typ, desc, default, force) ==
    /\ keywords' = RegisterStore(keywords, name, typ, desc, default, force)
    /\ err' = RegisterErr(keywords, name, force, "Keyword argument")
    /\ call' = RegisterCall("register_keyword", name, typ, desc, default, force)
    /\ doc' = <<>>
    /\ UNCHANGED <<form, ignore_args, ignore_kws, arguments, decorator, legacy_vars>>

-----------------------------------------------------------------------------
(* The decorator: ArgDoc.__call__ and ArgDoc.__ArgDocumenter *)

\* The fields of the __ArgDocumenter that ArgDoc.__call__ constructs.  The
\* two dicts and the two lists are the ArgDoc's own objects, not copies.
ArgDocumenter(f, args, kws, raises, ign_args, ign_kws) ==
    [form |-> f, arguments |-> args, keywords |-> kws, raises |-> raises,
     ignore_args |-> ign_args, ignore_kws |-> ign_kws]

get_argument_header(self) ==
    IF self.form = "numpy" THEN <<"\n\nArguments\n----------\n">>
    ELSE <<"\n\nArgs:\n">>

get_keyword_header(self) ==
    IF self.form = "numpy" THEN <<"\n\nKeyword Arguments\n-----------------\n">>
    ELSE <<"\n\nKeywords:\n">>

get_error_header(self) ==
    IF self.form = "numpy" THEN <<"\n\nRaises\n------\n">>
    ELSE <<"\n\nRaises:\n">>

\* info = self.arguments[param.name] raises KeyError for a missing name.
ArgumentMissing(self, param) == param.name \notin DOMAIN self.arguments
KeywordMissing(self, param)  == param.name \notin DOMAIN self.keywords

create_argument_doc(self, param) ==
    LET info == self.arguments[param.name] IN
    IF self.form = "numpy"
    THEN <<param.name, " : ", info.type, "\n    ", info.desc, "\n">>
    ELSE <<"    ", param.name, " (", info.type, "): ", info.desc, "\n">>

\* try: info['default']  except KeyError: param.default
EffectiveDefault(info, param) ==
    IF "default" \in DOMAIN info THEN info.default ELSE param.default

\* A renderer that takes the record of a defaulted parameter from the
\* Arguments namespace when that holds the name too.
create_keyword_doc_FromArguments(self, param) ==
    LET info    == IF param.name \in DOMAIN self.arguments
                   THEN self.arguments[param.name] ELSE self.keywords[param.name]
        default == EffectiveDefault(info, param)
    IN  IF self.form = "numpy"
        THEN <<param.name, " : ", info.type, ", optional\n    ", info.desc,
               " Default: ", Str(default), "\n">>
        ELSE <<"    ", param.name, " (", info.type, ", optional): ", info.desc, "\n">>

create_keyword_doc(self, param) ==
    LET info    == self.keywords[param.name]
        default == EffectiveDefault(info, param)
    IN  IF self.form = "numpy"
        THEN <<param.name, " : ", info.type, ", optional\n    ", info.desc,
               " Default: ", Str(default), "\n">>
        ELSE <<"    ", param.name, " (", info.type, ", optional): ", info.desc, "\n">>

create_vargs_doc(self, param) ==
    IF self.form = "numpy"
    THEN <<"*", param.name, "\n    Variable length argument list.">>
    ELSE <<"    *", param.name, ": Variable length argument list.">>

create_vkeywords_doc(self, param) ==
    IF self.form = "numpy"
    THEN <<"**", param.name, "\n    Arbitrary keyword arguments.">>
    ELSE <<"    **", param.name, ": Arbitrary keyword arguments.">>

create_error_doc(self, name, condition) ==
    IF self.form = "numpy"
    THEN <<name, "\n    ", condition, "\n">>
    ELSE <<"    ", name, ": ", condition, "\n">>

\* inspect.getdoc: None for no docstring, else the text with the indentation
\* and the blank lines around it removed.
getdoc(rawdoc) ==
    IF rawdoc = DocText THEN "Does nothing." ELSE rawdoc

\* `param.kind in POSITIONALS and param.default is _empty`
IsArgument(param) == param.kind \in POSITIONALS /\ param.default = Empty

\* The locals of __ArgDocumenter.__call__ before the loop over the parameters.
ScanInit(d) ==
    [doc |-> << <<d>> >>, has_args |-> FALSE, has_keywords |-> FALSE,
     has_vargs |-> FALSE, has_vkeywords |-> FALSE, err |-> NoErr]

\* One iteration of the loop, for a parameter of the first branch.
ScanArgument(self, st, param) ==
    IF param.name \in self.ignore_args THEN st
    ELSE IF st.has_keywords
    THEN [st EXCEPT !.err = Raise("ValueError", <<"Argument encountered after keyword">>)]
    ELSE IF st.has_vargs
    THEN [st EXCEPT !.err = Raise("ValueError", <<"Argument encountered after vargs">>)]
    ELSE LET st1 == IF ~st.has_args
                    THEN [st EXCEPT !.has_args = TRUE,
                                    !.doc = Append(@, get_argument_header(self))]
                    ELSE st
         IN  IF param.kind = VAR_POSITIONAL
             THEN [st1 EXCEPT !.has_vargs = TRUE,
                              !.doc = Append(@, create_vargs_doc(self, param))]
             ELSE IF ArgumentMissing(self, param)
             THEN [st1 EXCEPT !.err = Raise("KeyError", <<param.name>>)]
             ELSE [st1 EXCEPT !.doc = Append(@, create_argument_doc(self, param))]

\* One iteration of the loop, for a parameter of the else branch.
ScanKeyword(self, st, param) ==
    IF param.name \in self.ignore_kws THEN st
    ELSE IF st.has_vargs
    THEN [st EXCEPT !.err = Raise("ValueError", <<"Keyword encountered after vargs">>)]
    ELSE IF st.has_vkeywords
    THEN [st EXCEPT !.err = Raise("ValueError", <<"Keyword encountered after vkeywords">>)]
    ELSE LET st1 == IF ~st.has_keywords
                    THEN [st EXCEPT !.has_keywords = TRUE,
                                    !.doc = Append(@, get_keyword_header(self))]
                    ELSE st
         IN  IF param.kind = VAR_KEYWORD
             THEN [st1 EXCEPT !.has_vkeywords = TRUE,
                              !.doc = Append(@, create_vkeywords_doc(self, param))]
             ELSE IF KeywordMissing(self, param)
             THEN [st1 EXCEPT !.err = Raise("KeyError", <<param.name>>)]
             ELSE [st1 EXCEPT !.doc = Append(@, create_keyword_doc(self, param))]

\* A scan that leaves out a named parameter it has no record of.
ScanParam_SkipsUnregistered(self, st, param) ==
    IF IsArgument(param)
    THEN IF param.kind # VAR_POSITIONAL /\ ArgumentMissing(self, param)
         THEN st ELSE ScanArgument(self, st, param)
    ELSE IF param.kind # VAR_KEYWORD /\ KeywordMissing(self, param)
         THEN st ELSE ScanKeyword(self, st, param)

ScanParam(self, st, param) ==
    IF IsArgument(param) THEN ScanArgument(self, st, param)
    ELSE ScanKeyword(self, st, param)

\* The loop `for param in sig.parameters.values()`, over the first n
\* parameters; an exception ends it.
RECURSIVE Scan(_, _, _, _)
Scan(self, d, sig, n) ==
    IF n = 0 THEN ScanInit(d)
    ELSE LET st == Scan(self, d, sig, n - 1)
         IN  IF st.err # NoErr THEN st ELSE ScanParam(self, st, sig[n])

\* `if self.raises:` ... one entry per item of the dict
RECURSIVE ErrorDocs(_, _)
ErrorDocs(self, items) ==
    IF items = <<>> THEN <<>>
    ELSE <<create_error_doc(self, items[1][1], items[1][2])>>
            \o ErrorDocs(self, Tail(items))

\* A decorator that writes the Raises heading for every mapping, empty or not.
AddErrors_ForEveryMapping(self, chunks) ==
    IF ~self.raises.isNone
    THEN Append(chunks, get_error_header(self)) \o ErrorDocs(self, self.raises.items)
    ELSE chunks

AddErrors(self, chunks) ==
    IF ~self.raises.isNone /\ self.raises.items # <<>>
    THEN Append(chunks, get_error_header(self)) \o ErrorDocs(self, self.raises.items)
    ELSE chunks

\* `if not doc: doc = ''`
OriginalDoc(obj) ==
    LET d == getdoc(obj.rawdoc) IN IF d = PyNone \/ d = "" THEN "" ELSE d

\* __ArgDocumenter.__call__: the exception it raises and the __doc__ it sets
\* (<<>> when it raises: the assignment is not reached).
Decorate(self, obj) ==
    IF ~obj.hasdoc
    THEN [err |-> Raise("AttributeError", <<"Object has no docstring">>), doc |-> <<>>]
    ELSE LET st == Scan(self, OriginalDoc(obj), obj.sig, Len(obj.sig)) IN
         IF st.err # NoErr
         THEN [err |-> st.err, doc |-> <<>>]
         ELSE [err |-> NoErr, doc |-> Append(AddErrors(self, st.doc), <<"    \n">>)]

NoDecorator == [made |-> FALSE, raises |-> RaisesNone]

\* ArgDoc.__call__(raises): make the decorator.
ArgDocCall(raises) ==
    /\ decorator' = [made |-> TRUE, raises |-> raises]
    /\ call' = [op |-> "ArgDoc.__call__", raises |-> raises]
    /\ err' = NoErr
    /\ doc' = <<>>
    /\ UNCHANGED <<form, ignore_args, ignore_kws, arguments, keywords, legacy_vars>>

\* A decorator that holds copies of the two dicts, made when it was created:
\* it lacks the name registered since.
WithoutKey(d, k) == [x \in (DOMAIN d) \ {k} |-> d[x]]
TheDecorator_CopiesAtCreation ==
    ArgDocumenter(form,
                  IF call.op = "register_argument" /\ err = NoErr
                  THEN WithoutKey(arguments, call.name) ELSE arguments,
                  IF call.op = "register_keyword" /\ err = NoErr
                  THEN WithoutKey(keywords, call.name) ELSE keywords,
                  decorator.raises, ignore_args, ignore_kws)

\* The decorator as it is when applied: it reads the ArgDoc's dicts and lists
\* through the references it was constructed with.
TheDecorator ==
    ArgDocumenter(form, arguments, keywords, decorator.raises, ignore_args, ignore_kws)

\* decorator(obj)
Apply(obj) ==
    /\ decorator.made
    /\ LET r == Decorate(TheDecorator, obj) IN
         /\ err' = r.err
         /\ doc' = r.doc
    /\ call' = [op |-> "decorate", obj |-> obj]
    /\ UNCHANGED <<form, ignore_args, ignore_kws, arguments, keywords, decorator, legacy_vars>>

-----------------------------------------------------------------------------
(* The packaged ArgDoc *)

\* ArgDoc.__new__(form, ignore_args, ignore_kws)
Init ==
    /\ \E kw \in NewInputs :
         /\ form = kw.form
         /\ ignore_args = kw.ignore_args
         /\ ignore_kws = kw.ignore_kws
    /\ arguments = EmptyDict
    /\ keywords = EmptyDict
    /\ decorator = NoDecorator
    /\ call = [op |-> "ArgDoc.__new__"]
    /\ err = NoErr
    /\ doc = <<>>
    /\ ignore = {}
    /\ positional = EmptyDict
    /\ dict_order = InsertionOrder

Next ==
    \/ \E name \in RegNames, in \in RegInputs, force \in BOOLEAN :
         register_argument(name, in[1], in[2], force)
    \/ \E name \in RegNames, in \in KwRegInputs, force \in BOOLEAN :
         register_keyword(name, in[1], in[2], in[3], force)
    \/ \E raises \in RaisesInputs : ArgDocCall(raises)
    \/ \E obj \in Callables : Apply(obj)

Spec == Init /\ [][Next]_vars

-----------------------------------------------------------------------------
(* The top-level ArgDoc of src/argdoc.py: the decorator is the instance      *)
(* itself, it reads the argspec, and it renders the numpy format only.      *)

\* The interpreters setup.py names: insertion order, or the names in some
\* fixed order.
DictOrders ==
    {InsertionOrder}
      \cup {[insertion |-> FALSE, order |-> o] :
               o \in {q \in [1..Cardinality(RegNames) -> RegNames] :
                         \A i, j \in 1..Cardinality(RegNames) : i # j => q[i] # q[j]}}

LegacyIgnoreInputs == {{}, {"y"}}

\* getargspec has no keyword-only parameters.  The callables declare one of
\* two defaults, so that two callables can declare different ones.
LegacySigDefaults == SigDefaults \cup {"Test2"}
LegacyParameters ==
    [name : RegNames, kind : {POSITIONAL_OR_KEYWORD}, default : LegacySigDefaults]
      \cup {p \in Parameters : IsCapture(p)}
LegacySignatures ==
    {s \in UNION {[1..n -> LegacyParameters] : n \in 0..MaxParams} : ValidSignature(s)}
LegacyCallables ==
    [hasdoc : {TRUE}, rawdoc : {DocText}, sig : LegacySignatures]
      \cup [hasdoc : {TRUE}, rawdoc : RawDocs, sig : DoclessSignatures]
      \cup [hasdoc : {FALSE}, rawdoc : {PyNone}, sig : {<<>>}]

Front(q) == SubSeq(q, 1, Len(q) - 1)
Last(q)  == q[Len(q)]

\* getargspec(obj): args, the names of the positional parameters in order
ArgspecArgs(sig) ==
    LET pos == SelectSeq(sig, LAMBDA p : p.kind = POSITIONAL_OR_KEYWORD)
    IN  [i \in 1..Len(pos) |-> pos[i].name]

\* getargspec(obj): defaults, the defaults of the last parameters of args
ArgspecDefaults(sig) ==
    LET pos == SelectSeq(sig, LAMBDA p :
                   p.kind = POSITIONAL_OR_KEYWORD /\ p.default # Empty)
    IN  [i \in 1..Len(pos) |-> pos[i].default]

\* register_positional and register_keyword: neither hands a default on.
legacy_register_positional(name, typ, desc, force) ==
    /\ positional' = RegisterStore(positional, name, typ, desc, PyNone, force)
    /\ err' = RegisterErr(positional, name, force, "Positional argument")
    /\ call' = RegisterCall("register_positional", name, typ, desc, PyNone, force)
    /\ doc' = <<>>
    /\ UNCHANGED <<keywords, ignore, dict_order, package_vars>>

legacy_register_keyword(name, typ, desc, default, force) ==
    /\ keywords' = RegisterStore(keywords, name, typ, desc, PyNone, force)
    /\ err' = RegisterErr(keywords, name, force, "Keyword argument")
    /\ call' = RegisterCall("register_keyword", name, typ, desc, default, force)
    /\ doc' = <<>>
    /\ UNCHANGED <<positional, ignore, dict_order, package_vars>>

\* keywords[kw]['default'] = default, on the record self.keywords holds
BackFill(info, default) ==
    IF "default" \in DOMAIN info THEN info
    ELSE [type |-> info.type, desc |-> info.desc, default |-> default]

\* `while defaults:` pops args and defaults from the end.  keys are the keys
\* of the local dict in insertion order, store is self.keywords.
RECURSIVE LegacyKeywords(_, _, _, _, _)
LegacyKeywords(ign, args, defaults, store, keys) ==
    IF defaults = <<>>
    THEN [args |-> args, store |-> store, keys |-> keys, err |-> NoErr]
    ELSE LET kw == Last(args)  default == Last(defaults) IN
         IF kw \in ign
         THEN LegacyKeywords(ign, Front(args), Front(defaults), store, keys)
         ELSE IF kw \notin DOMAIN store
         THEN [args |-> Front(args), store |-> store, keys |-> keys,
               err |-> Raise("KeyError", <<kw>>)]
         ELSE LegacyKeywords(ign, Front(args), Front(defaults),
                             DictSet(store, kw, BackFill(store[kw], default)),
                             Append(keys, kw))

\* `while args:` pops the remaining args from the end.
RECURSIVE LegacyPositional(_, _, _, _)
LegacyPositional(ign, args, store, keys) ==
    IF args = <<>> THEN [keys |-> keys, err |-> NoErr]
    ELSE LET arg == Last(args) IN
         IF arg \in ign THEN LegacyPositional(ign, Front(args), store, keys)
         ELSE IF arg \notin DOMAIN store
         THEN [keys |-> keys, err |-> Raise("KeyError", <<arg>>)]
         ELSE LegacyPositional(ign, Front(args), store, Append(keys, arg))

legacy_create_numpy_format_argument(name, info) ==
    IF "default" \in DOMAIN info
    THEN <<name, " : ", info.type, ", optional\n    ", info.desc,
           " Default: ", Str(info.default), "\n">>
    ELSE <<name, " : ", info.type, "\n    ", info.desc, "\n">>

\* The keys of a dict filled in the order of keys, as d.items() yields them.
DictKeys(keys) ==
    IF dict_order.insertion THEN keys
    ELSE SelectSeq(dict_order.order, LAMBDA n : \E i \in 1..Len(keys) : keys[i] = n)

\* `for name, info in d.items()`
LegacyEntries(store, keys) ==
    LET ks == DictKeys(keys) IN
    [i \in 1..Len(ks) |-> legacy_create_numpy_format_argument(ks[i], store[ks[i]])]

\* obj.__doc__ if obj.__doc__ else '', then .strip()
LegacyOriginalDoc(obj) ==
    IF obj.rawdoc = PyNone \/ obj.rawdoc = "" THEN ""
    ELSE IF obj.rawdoc = DocText THEN "Does nothing." ELSE obj.rawdoc

\* ArgDoc.__call__ of src/argdoc.py: the exception, the __doc__ it sets and
\* self.keywords as it leaves it.
LegacyDecorate(ign, pos, kws, obj) ==
    IF ~obj.hasdoc
    THEN [err |-> Raise("AttributeError", <<"Object has no docstring">>),
          doc |-> <<>>, keywords |-> kws]
    ELSE LET k == LegacyKeywords(ign, ArgspecArgs(obj.sig), ArgspecDefaults(obj.sig),
                                 kws, <<>>)
         IN  IF k.err # NoErr
             THEN [err |-> k.err, doc |-> <<>>, keywords |-> k.store]
             ELSE LET p == LegacyPositional(ign, k.args, pos, <<>>) IN
                  IF p.err # NoErr
                  THEN [err |-> p.err, doc |-> <<>>, keywords |-> k.store]
                  ELSE [err |-> NoErr,
                        doc |-> <<  <<LegacyOriginalDoc(obj)>>  >>
                                \o (IF p.keys # <<>>
                                    THEN << <<"\n\nArguments\n----------\n">> >>
                                           \o LegacyEntries(pos, p.keys)
                                    ELSE <<>>)
                                \o (IF k.keys # <<>>
                                    THEN << <<"\n\nKeyword Arguments\n-----------------\n">> >>
                                           \o LegacyEntries(k.store, k.keys)
                                    ELSE <<>>)
                                \o << <<"    \n">> >>,
                        keywords |-> k.store]

LegacyApply(obj) ==
    /\ LET r == LegacyDecorate(ignore, positional, keywords, obj) IN
         /\ err' = r.err
         /\ doc' = r.doc
         /\ keywords' = r.keywords
    /\ call' = [op |-> "decorate", obj |-> obj]
    /\ UNCHANGED <<positional, ignore, dict_order, package_vars>>

\* ArgDoc.__init__(form, ignore): form is not kept.
LegacyInit ==
    /\ ignore \in LegacyIgnoreInputs
    /\ dict_order \in DictOrders
    /\ positional = EmptyDict
    /\ keywords = EmptyDict
    /\ call = [op |-> "ArgDoc.__init__"]
    /\ err = NoErr
    /\ doc = <<>>
    /\ form = "numpy"
    /\ ignore_args = {}
    /\ ignore_kws = {}
    /\ arguments = EmptyDict
    /\ decorator = NoDecorator

LegacyNext ==
    \/ \E name \in RegNames, in \in RegInputs, force \in BOOLEAN :
         legacy_register_positional(name, in[1], in[2], force)
    \/ \E name \in RegNames, in \in KwRegInputs, force \in BOOLEAN :
         legacy_register_keyword(name, in[1], in[2], in[3], force)
    \/ \E obj \in LegacyCallables : LegacyApply(obj)

LegacySpec == LegacyInit /\ [][LegacyNext]_vars

-----------------------------------------------------------------------------
(* Reading a call and a docstring back *)

RegisterOps == {"register_argument", "register_keyword", "register_positional"}

Registered == call.op \in RegisterOps
Decorated  == call.op = "decorate"          \* a decorator was applied to call.obj
Succeeded  == Decorated /\ err = NoErr

\* The type string a registration of typ is to store.
TypeShown(typ) == IF typ = ClassStr THEN "str" ELSE typ

\* How the packaged class sorts a parameter: into the Arguments section (no
\* default and positional) or into the Keyword Arguments section.
InArguments(p) == p.kind \in POSITIONALS /\ p.default = Empty
\* (the top-level class has one ignore list and calls its dict positional)
Ignored(p) ==
    IF InArguments(p) THEN p.name \in ignore_args \cup ignore
    ELSE p.name \in ignore_kws \cup ignore
RecordIn(args, kws, pos, p) ==
    IF InArguments(p)
    THEN IF p.name \in DOMAIN args THEN args[p.name] ELSE pos[p.name]
    ELSE kws[p.name]
RecordOf(p) == RecordIn(arguments, keywords, positional, p)
HasRecord(p) ==
    IF InArguments(p) THEN p.name \in (DOMAIN arguments) \cup (DOMAIN positional)
    ELSE p.name \in DOMAIN keywords

\* The headings of the three sections, in the two formats.
ArgumentsHeading == {<<"\n\nArguments\n----------\n">>, <<"\n\nArgs:\n">>}
KeywordsHeading  == {<<"\n\nKeyword Arguments\n-----------------\n">>, <<"\n\nKeywords:\n">>}
RaisesHeading    == {<<"\n\nRaises\n------\n">>, <<"\n\nRaises:\n">>}
Headings == ArgumentsHeading \cup KeywordsHeading \cup RaisesHeading
Marker   == <<"    \n">>

\* The entries of the section of d under a heading of H: the chunks after
\* the heading, up to the next heading or the closing marker.
Section(d, H) ==
    LET hs == {i \in 1..Len(d) : d[i] \in H} IN
    IF hs = {} THEN <<>>
    ELSE LET h == CHOOSE i \in hs : \A j \in hs : i <= j
             body == {i \in (h + 1)..(Len(d) - 1) :
                        \A j \in (h + 1)..i : d[j] \notin Headings}
         IN  SubSeq(d, h + 1, h + Cardinality(body))

\* The parameter an entry is about, and the entry as it names it.
EntryName(c) == IF c[1] \in {"    ", "*", "**", "    *", "    **"} THEN c[2] ELSE c[1]
Entries(d, H) == LET s == Section(d, H) IN {s[k] : k \in 1..Len(s)}
\* The chunk at position j of d is an entry of the section under a heading of H.
InSection(d, j, H) ==
    /\ j < Len(d)
    /\ \E h \in 1..(j - 1) :
          /\ d[h] \in H
          /\ \A k \in 1..(h - 1) : d[k] \notin H
          /\ \A k \in (h + 1)..j : d[k] \notin Headings
Names(entries) == [i \in 1..Len(entries) |-> EntryName(entries[i])]
NamesOf(params) == [i \in 1..Len(params) |-> params[i].name]
Shows(c, piece) == \E j \in 1..Len(c) : c[j] = piece

\* A named parameter that is neither ignored nor registered.
Unregistered(p) == ~IsCapture(p) /\ ~Ignored(p) /\ ~HasRecord(p)

-----------------------------------------------------------------------------
(* C1 *)

\* The store a registration call writes, before and after the call.
StoreOf(c, args, kws, pos) ==
    CASE c.op = "register_argument"   -> args
      [] c.op = "register_keyword"    -> kws
      [] c.op = "register_positional" -> pos

\* C1: in either namespace, registering a name that the namespace already
\* holds fails with KeyError and changes nothing when force is false, and
\* succeeds when force is true, after which the record stored for the name
\* has the type and the description of this later call.
C1_DuplicateOrForce ==
    [][ (call'.op \in RegisterOps
           /\ call'.name \in DOMAIN StoreOf(call', arguments, keywords, positional))
        => IF call'.force
           THEN /\ err' = NoErr
                /\ StoreOf(call', arguments', keywords', positional')[call'.name].type
                     = TypeShown(call'.typ)
                /\ StoreOf(call', arguments', keywords', positional')[call'.name].desc
                     = call'.desc
           ELSE /\ Raised(err', "KeyError")
                /\ arguments' = arguments /\ keywords' = keywords
      ]_vars

\* A registration without force was refused in the Keyword namespace while
\* the record of the first registration is still there.
C1_Witness ==
    /\ call.op = "register_keyword" /\ ~call.force
    /\ Raised(err, "KeyError")
    /\ call.name \in DOMAIN keywords

-----------------------------------------------------------------------------
(* C2 *)

\* C2 as stated: a decorated callable with a parameter of any kind, captures
\* included, that is not ignored and has no record in its namespace makes the
\* decoration raise KeyError.
C2_Original ==
    (Decorated /\ call.obj.hasdoc
       /\ \E i \in 1..Len(call.obj.sig) :
            ~Ignored(call.obj.sig[i]) /\ ~HasRecord(call.obj.sig[i]))
    => Raised(err, "KeyError")

\* C2 amended: a decorated callable with a named (ordinary, defaulted or
\* keyword-only) parameter that is not ignored and has no record never gets a
\* docstring: the decoration raises KeyError naming such a parameter, or a
\* ValueError of the ordering checks when the scan stops there first.
C2_UnregisteredRaises ==
    (Decorated /\ call.obj.hasdoc
       /\ \E i \in 1..Len(call.obj.sig) : Unregistered(call.obj.sig[i]))
    => /\ doc = <<>>
       /\ \/ Raised(err, "ValueError")
          \/ /\ Raised(err, "KeyError")
             /\ \E i \in 1..Len(call.obj.sig) :
                  Unregistered(call.obj.sig[i]) /\ err[2] = <<call.obj.sig[i].name>>

\* A callable whose second parameter is unregistered, after a registered one,
\* was refused with KeyError.
C2_Witness ==
    /\ Decorated /\ call.obj.hasdoc
    /\ Len(call.obj.sig) = 2
    /\ ~Unregistered(call.obj.sig[1]) /\ ~Ignored(call.obj.sig[1])
    /\ Unregistered(call.obj.sig[2])
    /\ Raised(err, "KeyError")

-----------------------------------------------------------------------------
(* C3 *)

\* C3: decorating a callable whose named parameters are all registered or
\* ignored never raises, whatever captures the signature has.
C3_RegisteredNeverRaises ==
    (Decorated /\ call.obj.hasdoc
       /\ \A i \in 1..Len(call.obj.sig) : ~Unregistered(call.obj.sig[i]))
    => err = NoErr

\* A callable with *args and **kwargs and nothing to look up.
C3_FailingInput ==
    Decorated /\ call.obj.hasdoc /\ NamesOf(call.obj.sig) = <<"args", "kwargs">>

-----------------------------------------------------------------------------
(* C4 *)

\* The parameters a docstring is to list under Arguments and under Keyword
\* Arguments: the declared ones that are not ignored, in declared order.
DeclaredArguments(sig) == SelectSeq(sig, LAMBDA p : InArguments(p) /\ ~Ignored(p))
DeclaredKeywords(sig)  == SelectSeq(sig, LAMBDA p : ~InArguments(p) /\ ~Ignored(p))

\* C4: after a successful decoration each section of the docstring has one
\* entry for each declared parameter that is not ignored, none for an
\* ignored one, in the order of the signature.
C4_DeclaredOrder ==
    Succeeded =>
        /\ Names(Section(doc, ArgumentsHeading)) = NamesOf(DeclaredArguments(call.obj.sig))
        /\ Names(Section(doc, KeywordsHeading))  = NamesOf(DeclaredKeywords(call.obj.sig))

\* Two registered parameters, declared y before x, were rendered.
C4_Witness ==
    /\ Succeeded
    /\ NamesOf(call.obj.sig) = <<"y", "x">>
    /\ \A i \in 1..2 : ~Ignored(call.obj.sig[i])

-----------------------------------------------------------------------------
(* C5 *)

\* The entry of the Keyword Arguments section about a name.
KeywordEntries(name) ==
    {c \in Entries(doc, KeywordsHeading) : EntryName(c) = name}

\* C5: when the record of a defaulted parameter carries a default, the entry
\* of every decorated callable that declares the parameter shows that default.
C5_RegistryDefaultShown ==
    Succeeded =>
        \A i \in 1..Len(call.obj.sig) :
            LET p == call.obj.sig[i] IN
            (~InArguments(p) /\ ~IsCapture(p) /\ ~Ignored(p)
               /\ "default" \in DOMAIN keywords[p.name])
            => \E c \in KeywordEntries(p.name) : Shows(c, Str(keywords[p.name].default))

-----------------------------------------------------------------------------
(* C6 *)

\* C6: decorating a callable that has no docstring, absent or empty, raises
\* and produces no docstring.
C6_MissingDocstringRaises ==
    (Decorated /\ (~call.obj.hasdoc \/ call.obj.rawdoc \in {PyNone, ""}))
    => (err # NoErr /\ doc = <<>>)

-----------------------------------------------------------------------------
(* C7 *)

\* C7: a decoration leaves the registry as it was.
C7_DecorationKeepsRegistry ==
    [][ call'.op = "decorate"
        => (arguments' = arguments /\ keywords' = keywords /\ positional' = positional)
      ]_vars

-----------------------------------------------------------------------------
(* C8 *)

\* C8: a capture that is not ignored, in a callable whose named parameters
\* are registered, gets its entry: *args under Arguments, **kwargs under
\* Keyword Arguments, also when the signature declares both.
C8_CapturesRendered ==
    (Decorated /\ call.obj.hasdoc
       /\ \A i \in 1..Len(call.obj.sig) : ~Unregistered(call.obj.sig[i]))
    => \A i \in 1..Len(call.obj.sig) :
         LET p == call.obj.sig[i] IN
         (IsCapture(p) /\ ~Ignored(p))
         => /\ err = NoErr
            /\ \E j \in 1..Len(doc) : EntryName(doc[j]) = p.name
            /\ p.kind = VAR_POSITIONAL
                 => \E c \in Entries(doc, ArgumentsHeading) : EntryName(c) = p.name
            /\ p.kind = VAR_KEYWORD => KeywordEntries(p.name) # {}

-----------------------------------------------------------------------------
(* C9 *)

\* The classes of the specification: ordinary (no default, positional),
\* defaulted (a default, or keyword-only), and the two captures.
IsOrdinary(p)  == p.kind \in {POSITIONAL_ONLY, POSITIONAL_OR_KEYWORD} /\ p.default = Empty
IsDefaulted(p) == ~IsCapture(p) /\ ~IsOrdinary(p)

\* The orders the claim has rejected: an ordinary parameter after a
\* defaulted one or after *args, a defaulted one after **kwargs.
ClaimedMalformed(sig) ==
    \E i, j \in 1..Len(sig) :
        /\ i < j /\ ~Ignored(sig[i]) /\ ~Ignored(sig[j])
        /\ \/ IsOrdinary(sig[j]) /\ (IsDefaulted(sig[i]) \/ sig[i].kind = VAR_POSITIONAL)
           \/ IsDefaulted(sig[j]) /\ sig[i].kind = VAR_KEYWORD

\* C9: with every named parameter registered, the decoration raises the
\* ordering error exactly for those orders.
C9_OrderingRejectedExactly ==
    (Decorated /\ call.obj.hasdoc
       /\ \A i \in 1..Len(call.obj.sig) : ~Unregistered(call.obj.sig[i]))
    => (Raised(err, "ValueError") <=> ClaimedMalformed(call.obj.sig))

-----------------------------------------------------------------------------
(* C10 *)

\* The entry of a named parameter shows the type and the description of rec.
EntryShows(c, rec) ==
    \E j, k \in 1..Len(c) : j < k /\ c[j] = rec.type /\ c[k] = rec.desc

\* C10: a registration fails only for a name its own namespace holds and
\* leaves the other namespace alone, and a decoration renders a parameter
\* declared without a default from its Arguments record and one declared
\* with a default from its Keyword record.
C10_NamespacesIndependent ==
    [][ /\ call'.op \in RegisterOps =>
            /\ Raised(err', "KeyError")
                 <=> (~call'.force
                        /\ call'.name \in DOMAIN StoreOf(call', arguments, keywords, positional))
            /\ call'.op # "register_keyword" => keywords' = keywords
            /\ call'.op = "register_keyword"
                 => (arguments' = arguments /\ positional' = positional)
        /\ (call'.op = "decorate" /\ err' = NoErr) =>
            \A i \in 1..Len(call'.obj.sig) :
                LET p == call'.obj.sig[i] IN
                (~IsCapture(p) /\ ~Ignored(p)) =>
                    \E j \in 1..Len(doc') :
                        /\ EntryName(doc'[j]) = p.name
                        /\ EntryShows(doc'[j], RecordIn(arguments', keywords', positional', p))
                        /\ doc'[j] \in Entries(doc', IF InArguments(p) THEN ArgumentsHeading
                                                     ELSE KeywordsHeading)
      ]_vars

\* x is registered in both namespaces with different records, and a
\* callable that declares x with a default was decorated.
C10_Witness ==
    /\ Succeeded
    /\ "x" \in DOMAIN keywords
    /\ "x" \in (DOMAIN arguments) \cup (DOMAIN positional)
    /\ keywords["x"].desc # RecordOf([name |-> "x", kind |-> POSITIONAL_OR_KEYWORD,
                                      default |-> Empty]).desc
    /\ NamesOf(call.obj.sig) = <<"x">>
    /\ call.obj.sig[1].default # Empty

-----------------------------------------------------------------------------
(* C11 *)

\* The mapping of error conditions the applied decorator was created with.
RaisesItems == IF decorator.raises.isNone THEN <<>> ELSE decorator.raises.items

\* The positions of the chunks of d that are a heading of H.
HeadingsAt(d, H) == {i \in 1..Len(d) : d[i] \in H}

\* C11: a decoration that succeeds with a non-empty mapping of error
\* conditions writes one Raises heading, under it exactly one entry per
\* error name with its condition, after every parameter section and
\* directly before the closing marker; with no mapping or an empty one it
\* writes no Raises heading.
C11_RaisesSection ==
    Succeeded =>
        IF RaisesItems = <<>>
        THEN HeadingsAt(doc, RaisesHeading) = {}
        ELSE /\ Cardinality(HeadingsAt(doc, RaisesHeading)) = 1
             /\ LET h   == CHOOSE i \in HeadingsAt(doc, RaisesHeading) : TRUE
                    sec == Section(doc, RaisesHeading)
                IN  /\ Len(sec) = Len(RaisesItems)
                    /\ \A n \in 1..Len(RaisesItems) :
                          /\ Cardinality({k \in 1..Len(sec) :
                                            EntryName(sec[k]) = RaisesItems[n][1]}) = 1
                          /\ \E k \in 1..Len(sec) :
                                /\ EntryName(sec[k]) = RaisesItems[n][1]
                                /\ Shows(sec[k], RaisesItems[n][2])
                    /\ \A i \in HeadingsAt(doc, ArgumentsHeading \cup KeywordsHeading) :
                          i < h
                    /\ h + Len(RaisesItems) + 1 = Len(doc)
                    /\ doc[Len(doc)] = Marker

\* A callable with an Arguments and a Keyword Arguments section was
\* decorated by a decorator created with two error conditions.
C11_Witness ==
    /\ Succeeded
    /\ Len(RaisesItems) = 2
    /\ HeadingsAt(doc, ArgumentsHeading) # {}
    /\ HeadingsAt(doc, KeywordsHeading) # {}

-----------------------------------------------------------------------------
(* C13 *)

\* The pieces of a format string that carry the "optional" marker.
OptionalMarker == {", optional\n    ", ", optional): "}

\* C13: in the numpy and in the google format, the entry of every rendered
\* parameter that declares a default shows the type and the description of
\* its Keyword record, the "optional" marker, and the effective default:
\* the default of the record if it has one, else the default the decorated
\* callable declares.
C13_EntryShowsEffectiveDefault ==
    Succeeded =>
        \A i \in 1..Len(call.obj.sig) :
            LET p == call.obj.sig[i] IN
            (~IsCapture(p) /\ p.default # Empty /\ ~Ignored(p))
            => \E c \in KeywordEntries(p.name) :
                   /\ Shows(c, keywords[p.name].type)
                   /\ \E m \in OptionalMarker : Shows(c, m)
                   /\ Shows(c, keywords[p.name].desc)
                   /\ Shows(c, Str(IF "default" \in DOMAIN keywords[p.name]
                                   THEN keywords[p.name].default ELSE p.default))

-----------------------------------------------------------------------------
(* C14 *)

\* C14: a forced register_keyword without a default, for a name whose
\* record carries a default, leaves a record of the new type and
\* description that carries no default; and a decoration renders, for a
\* parameter whose record carries no default, the default that the
\* decorated callable declares.
C14_ForceReplacesRecord ==
    [][ /\ ( /\ call'.op = "register_keyword"
             /\ call'.force
             /\ call'.default = PyNone
             /\ call'.name \in DOMAIN keywords
             /\ "default" \in DOMAIN keywords[call'.name] )
          => /\ err' = NoErr
             /\ keywords'[call'.name] = [type |-> TypeShown(call'.typ), desc |-> call'.desc]
        /\ (call'.op = "decorate" /\ err' = NoErr) =>
            \A i \in 1..Len(call'.obj.sig) :
                LET p == call'.obj.sig[i] IN
                ( /\ ~IsCapture(p) /\ p.default # Empty /\ ~Ignored(p)
                  /\ "default" \notin DOMAIN keywords'[p.name] )
                => \E c \in Entries(doc', KeywordsHeading) :
                       EntryName(c) = p.name /\ Shows(c, Str(p.default))
      ]_vars

-----------------------------------------------------------------------------
(* C15 *)

\* C15: a decoration that raises sets no docstring on its target and leaves
\* the two namespaces of the registry as they were before the call, so that
\* a later decoration finds what it would have found without the attempt.
C15_FailedDecorationHasNoEffect ==
    [][ (call'.op = "decorate" /\ err' # NoErr) =>
            /\ doc' = <<>>
            /\ arguments' = arguments
            /\ positional' = positional
            /\ keywords' = keywords
      ]_vars

-----------------------------------------------------------------------------
(* C16 *)

\* The latest call registered a name, after the decorator was created (the
\* creation would otherwise be the latest call or not have happened).
RegisteredSinceCreation ==
    /\ decorator.made
    /\ call.op \in {"register_argument", "register_keyword"}
    /\ err = NoErr

\* p is looked up in the namespace the registration c wrote, under its name.
LooksUp(p, c) ==
    /\ ~IsCapture(p)
    /\ p.name = c.name
    /\ InArguments(p) <=> c.op = "register_argument"
    /\ ~Ignored(p)

\* The record the registration c stored, as an entry shows it.
Stored(c) == [type |-> TypeShown(c.typ), desc |-> c.desc]

\* C16: a registration made after the decorator was created, a forced
\* overwrite included, is what the application of the decorator finds: the
\* application raises no KeyError for the registered name and, when it
\* succeeds, the entry of the parameter shows the type and the description
\* of that registration.
C16_LookupAtApplication ==
    [][ (RegisteredSinceCreation /\ call'.op = "decorate") =>
            \A i \in 1..Len(call'.obj.sig) :
                LET p == call'.obj.sig[i] IN
                LooksUp(p, call) =>
                    /\ err' # Raise("KeyError", <<p.name>>)
                    /\ err' = NoErr =>
                          \E j \in 1..Len(doc') :
                              /\ EntryName(doc'[j]) = p.name
                              /\ EntryShows(doc'[j], Stored(call))
                              /\ InSection(doc', j, IF InArguments(p) THEN ArgumentsHeading
                                                     ELSE KeywordsHeading)
      ]_vars

\* After the decorator was created, x was registered with force as an
\* argument under the description d2, and the decorator applied to f(x)
\* renders that description.
C16_Witness ==
    /\ RegisteredSinceCreation
    /\ call.op = "register_argument" /\ call.name = "x" /\ call.force
    /\ call.desc = "d2"
    /\ LET f == [hasdoc |-> TRUE, rawdoc |-> DocText,
                 sig |-> <<[name |-> "x", kind |-> POSITIONAL_OR_KEYWORD,
                            default |-> Empty]>>]
           r == Decorate(TheDecorator, f)
       IN  /\ r.err = NoErr
           /\ \E j \in 1..Len(r.doc) :
                 EntryName(r.doc[j]) = "x" /\ Shows(r.doc[j], "d2")

====
